---- MODULE Spec2Model ----
(***************************************************************************)
(* A model of dagny: the Resource dispatcher (dagny/resource.py), Accept   *)
(* matching (dagny/conneg.py), the Renderer and its tables                 *)
(* (dagny/renderer.py, dagny/action.py), the call of an action             *)
(* (dagny/action.py) and the URL router and styles                         *)
(* (dagny/urls/router.py, dagny/urls/styles.py).                           *)
(*                                                                         *)
(* Eight specifications share the module, one per subsystem:               *)
(*   SpecResource  one Resource instance and the calls made of it          *)
(*   SpecConneg    match_accept applied to a header and a candidate list   *)
(*   SpecRender    one run of Renderer.__call__ on a renderer table        *)
(*   SpecTables    set, delete and _bind on renderer tables                *)
(*   SpecRequests  two requests of one action and the table they render by *)
(*   SpecRouter    resources() and resource() on the three URL styles      *)
(*   SpecStyle     the patterns of a style and the paths they match        *)
(*   SpecAction    one call of a BoundAction, plain or wrapped by deco     *)
(***************************************************************************)
EXTENDS Naturals, Sequences, FiniteSets, TLC

VARIABLES
    \* ---- Resource (dagny/resource.py) ----
    kwargs,      \* the view kwargs of the matched route, as the URL conf gave them
    implemented, \* the action names for which hasattr(resource, name) is true
    request,     \* request.method and request.POST.get('_method')
    params,      \* resource.params
    called_yet,  \* resource._called_yet
    decision,    \* what _route returned in the dispatching call
    executed,    \* the action bodies run so far, in order
    returned,    \* what each call of the instance returned (or raised), in order
    \* ---- match_accept (dagny/conneg.py) ----
    header,      \* the Accept header handed to match_accept, as (range, q) items
    shortcodes,  \* the candidate shortcodes handed to match_accept
    matched,     \* the result of match_accept
    \* ---- Renderer (dagny/renderer.py) ----
    backends,    \* renderer._backends: the ordered shortcode -> backend table
    accept,      \* request.META.get('HTTP_ACCEPT')
    fmt,         \* params.get('format') and request.GET.get('format')
    pc,          \* where Renderer.__call__ stands: idle, loop or done
    matches,     \* the candidate list _match built
    idx,         \* the position in matches of the next backend to try
    log,         \* the backends invoked so far, each with its outcome
    response,    \* what Renderer.__call__ returned (or raised)
    \* ---- renderer tables and their binding (dagny/renderer.py, dagny/action.py) ----
    heap,        \* the odict objects alive, by identity; heap[1] is Action.RENDERER._backends
    bound,       \* the identity of action.render._backends, 0 before Action.__init__
    clock,       \* the number of set and delete operations made so far
    handling,    \* per request: its stage, the table its render uses, what it saw
    \* ---- URL routing (dagny/urls/router.py, dagny/urls/styles.py) ----
    style,       \* the URL style the router was built with
    routing,     \* the arguments of the resources() or resource() call
    routes,      \* what the call gave: the included url() entries, or an exception
    \* ---- URL styles and the paths they match (dagny/urls/styles.py) ----
    id_arg,      \* the id parameter handed to the style
    built,       \* per slot, what style(slot, id_param) returned
    path,        \* a request path below the resource's prefix, as a list of tokens
    hits,        \* per slot, the ways the slot's pattern matches the path
    \* ---- calling an action (dagny/action.py) ----
    wrapping,    \* how the action method is defined: plain, or wrapped by Action.deco
    attrs,       \* resource.request, resource.args, resource.params
    body,        \* how often the action body ran and the attributes it saw
    invocation   \* where BoundAction.__call__ stands and what it has so far

resVars == <<kwargs, implemented, request, params, called_yet, decision, executed, returned>>
negVars == <<header, shortcodes, matched>>
renVars == <<backends, accept, fmt, pc, matches, idx, log, response>>
tabVars == <<heap, bound, clock, handling>>
urlVars == <<style, routing, routes>>
styVars == <<id_arg, built, path, hits>>
actVars == <<wrapping, attrs, body, invocation>>
vars == <<resVars, negVars, renVars, tabVars, urlVars, styVars, actVars>>

-----------------------------------------------------------------------------
(* Small helpers on sequences.                                             *)

Range(s) == {s[i] : i \in DOMAIN s}

InSeq(x, s) == \E i \in DOMAIN s : s[i] = x

\* list.index(x): the first position of x
IndexOf(s, x) == CHOOSE i \in DOMAIN s : s[i] = x /\ \A j \in 1..(i - 1) : s[j] # x

IsDuplicateFree(s) == \A i, j \in DOMAIN s : i # j => s[i] # s[j]

\* the sequences over S of length at most n
SeqsUpTo(S, n) == UNION {[1..k -> S] : k \in 0..n}

-----------------------------------------------------------------------------
(* Resource: dispatch of a request to an action (dagny/resource.py).       *)

\* how many times the instance is called (the view once, templates after)
MaxCalls == 3

Methods == {"GET", "POST", "PUT", "DELETE"}

Actions == {"show", "update", "destroy"}

\* request.method as the framework gives it
RawMethods == {"GET", "POST", "DELETE", "HEAD"}

\* no '_method' field in request.POST
NoOverride == "<absent>"

\* values of the '_method' field of request.POST
OverrideMethods == {"put", "delete", "Delete"}

\* str.upper() on the strings the model uses
Upper(s) ==
    CASE s \in {"get", "Get", "GET"} -> "GET"
      [] s \in {"post", "Post", "POST"} -> "POST"
      [] s \in {"put", "Put", "PUT"} -> "PUT"
      [] s \in {"delete", "Delete", "DELETE"} -> "DELETE"
      [] s \in {"head", "Head", "HEAD"} -> "HEAD"
      [] OTHER -> s

\* the method -> action tables a route may carry in its 'methods' kwarg
MethodActionMaps == UNION {[D -> Actions] : D \in SUBSET Methods}

\* dict.items() of a method -> action table, as a list in the dict's order
MethodOrder == <<"GET", "POST", "PUT", "DELETE">>

Items(map) == SelectSeq(MethodOrder, LAMBDA m : m \in DOMAIN map)

\* hasattr(self, action_name)
HasAction(impl, action_name) == action_name \in impl

\* Resource._allowed_methods: the methods of the map whose action the resource has
AllowedMethodsNoHasattr(map, impl) == Items(map)

AllowedMethods(map, impl) ==
    SelectSeq(Items(map), LAMBDA meth : HasAction(impl, map[meth]))

NoDecision == [kind |-> "none", allow |-> {}, action |-> ""]

\* Resource._route: 404 stub, 405 view or the bound action
Route(method, map, impl) ==
    LET allowed_methods == AllowedMethods(map, impl) IN
    IF ~InSeq(method, allowed_methods)
    THEN IF allowed_methods = <<>>
         THEN [kind |-> "not_found", allow |-> {}, action |-> ""]
         ELSE [kind |-> "not_allowed", allow |-> Range(allowed_methods), action |-> ""]
    ELSE [kind |-> "invoke", allow |-> {}, action |-> map[method]]

\* the values a call of the instance gives back
Result(kind, what, status, allow, action) ==
    [kind |-> kind, what |-> what, status |-> status, allow |-> allow, action |-> action]

ReturnedSelf == Result("self", "Resource", 0, {}, "")

Raised(exc) == Result("raise", exc, 0, {}, "")

\* what the body of an action does: return a response, return nothing (so that
\* the action's renderer produces the response), or fail
ActionOutcomes == {"response", "rendered", "raise"}

\* BoundAction.__call__, as far as the dispatcher sees it
ActionResult(action, outcome) ==
    CASE outcome = "response" -> Result("response", "action", 200, {}, action)
      [] outcome = "rendered" -> Result("response", "render", 200, {}, action)
      [] OTHER -> Raised("ActionError")

\* a dispatch that looks at request.method alone
DispatchMethodIgnoringOverride(req) == Upper(req.method)

\* the method the dispatch uses: POST['_method'] when present, else request.method
DispatchMethod(req) ==
    Upper(IF req.post_method # NoOverride THEN req.post_method ELSE req.method)

\* Resource.__call__ after the _called_yet guard: pop 'methods', route, call the
\* routed view. pop says whether 'methods' is removed from params (the code pops).
DispatchWith(outcome, pop) ==
    /\ called_yet' = TRUE
    /\ IF ~params.has_methods
       THEN /\ returned' = Append(returned, Raised("ValueError"))
            /\ UNCHANGED <<params, decision, executed>>
       ELSE LET d == Route(DispatchMethod(request), params.methods, implemented) IN
            /\ params' = IF pop THEN [has_methods |-> FALSE, methods |-> <<>>] ELSE params
            /\ decision' = d
            /\ CASE d.kind = "not_found" ->
                      /\ returned' = Append(returned, Raised("Http404"))
                      /\ UNCHANGED executed
                 [] d.kind = "not_allowed" ->
                      /\ returned' = Append(returned,
                                        Result("response", "NotAllowed", 405, d.allow, ""))
                      /\ UNCHANGED executed
                 [] OTHER ->
                      /\ executed' = Append(executed, d.action)
                      /\ returned' = Append(returned, ActionResult(d.action, outcome))

\* Resource.__call__ with neither the _called_yet guard nor the pop of 'methods':
\* every call dispatches
CallAlwaysDispatching ==
    /\ Len(returned) < MaxCalls
    /\ \E outcome \in ActionOutcomes : DispatchWith(outcome, FALSE)
    /\ UNCHANGED <<kwargs, implemented, request>>

\* Resource.__call__ handing back the first call's result on a repeated call
CallReturningFirstResult ==
    /\ Len(returned) < MaxCalls
    /\ IF called_yet
       THEN /\ returned' = Append(returned, returned[1])
            /\ UNCHANGED <<params, called_yet, decision, executed>>
       ELSE \E outcome \in ActionOutcomes : DispatchWith(outcome, TRUE)
    /\ UNCHANGED <<kwargs, implemented, request>>

\* Resource.__call__
Call ==
    /\ Len(returned) < MaxCalls
    /\ IF called_yet
       THEN /\ returned' = Append(returned, ReturnedSelf)
            /\ UNCHANGED <<params, called_yet, decision, executed>>
       ELSE \E outcome \in ActionOutcomes : DispatchWith(outcome, TRUE)
    /\ UNCHANGED <<kwargs, implemented, request>>

\* Resource.__init__ on a matched route
InitResource ==
    /\ kwargs \in [has_methods : {TRUE}, methods : MethodActionMaps]
                    \cup {[has_methods |-> FALSE, methods |-> <<>>]}
    /\ implemented \in SUBSET Actions
    /\ request \in [method : RawMethods, post_method : {NoOverride} \cup OverrideMethods]
    /\ params = kwargs
    /\ called_yet = FALSE
    /\ decision = NoDecision
    /\ executed = <<>>
    /\ returned = <<>>

\* no Resource is under study
IdleResource ==
    /\ kwargs = [has_methods |-> FALSE, methods |-> <<>>]
    /\ implemented = {}
    /\ request = [method |-> "GET", post_method |-> NoOverride]
    /\ params = kwargs
    /\ called_yet = FALSE
    /\ decision = NoDecision
    /\ executed = <<>>
    /\ returned = <<>>

-----------------------------------------------------------------------------
(* Content negotiation: match_accept (dagny/conneg.py).                    *)
(*                                                                         *)
(* An Accept header is kept as the list of (media range, quality) items    *)
(* that webob's parser reads from the header string; qualities are in      *)
(* tenths (q=0.1 is 1, q=1 is 10). The empty list is the empty string.     *)

\* the longest Accept header handed to match_accept, in items
MaxHeaderLen == 2

\* the longest candidate list handed to match_accept
MaxCandidates == 3

\* the renderer shortcodes of the model: keys of MIMETYPES
Shortcodes == {"html", "htm", "json", "xml"}

\* conneg.MIMETYPES: shortcode -> mimetype. mimetypes.types_map maps both .htm
\* and .html to text/html.
MIMETYPES ==
    [sc \in Shortcodes |->
        CASE sc = "html" -> "text/html"
          [] sc = "htm" -> "text/html"
          [] sc = "json" -> "application/json"
          [] OTHER -> "application/xml"]

MediaRanges ==
    {"text/html", "application/json", "application/xml", "image/png", "text/*", "*/*"}

Qualities == {0, 1, 10}

HeaderItems == [range : MediaRanges, q : Qualities]

\* sorted(parsed, key=lambda iq: -iq[1]) is stable: x goes after every item whose
\* quality is at least its own
RECURSIVE InsertByQuality(_, _)
InsertByQuality(sorted, x) ==
    IF sorted = <<>> THEN <<x>>
    ELSE IF Head(sorted).q >= x.q
         THEN <<Head(sorted)>> \o InsertByQuality(Tail(sorted), x)
         ELSE <<x>> \o sorted

RECURSIVE SortByQuality(_)
SortByQuality(parsed) ==
    IF parsed = <<>> THEN <<>>
    ELSE InsertByQuality(SortByQuality(SubSeq(parsed, 1, Len(parsed) - 1)),
                         parsed[Len(parsed)])

\* MIMEAccept("Accept", header).best_matches(): the media ranges of the header
\* as written, every item of it (q=0 too), by descending quality
BestMatches(hdr) ==
    LET sorted == SortByQuality(hdr) IN [i \in DOMAIN sorted |-> sorted[i].range]

\* conneg.match_accept
MatchAccept(hdr, codes) ==
    LET server_types == [i \in DOMAIN codes |-> MIMETYPES[codes[i]]]
        client_types == BestMatches(hdr)
        found == SelectSeq(server_types, LAMBDA mimetype : InSeq(mimetype, client_types))
    IN  [i \in DOMAIN found |-> codes[IndexOf(server_types, found[i])]]

NotMatched == [done |-> FALSE, value |-> <<>>]

\* a call match_accept(header, shortcodes)
MatchAcceptCall ==
    /\ ~matched.done
    /\ matched' = [done |-> TRUE, value |-> MatchAccept(header, shortcodes)]
    /\ UNCHANGED <<header, shortcodes>>

CandidateLists(n) == {s \in SeqsUpTo(Shortcodes, n) : IsDuplicateFree(s)}

\* the arguments of a call of match_accept
InitConneg ==
    /\ header \in SeqsUpTo(HeaderItems, MaxHeaderLen)
    /\ shortcodes \in CandidateLists(MaxCandidates)
    /\ matched = NotMatched

\* no call of match_accept is under study
IdleConneg ==
    /\ header = <<>>
    /\ shortcodes = <<>>
    /\ matched = NotMatched

-----------------------------------------------------------------------------
(* Rendering: Renderer.__call__ and Renderer._match (dagny/renderer.py).   *)

\* the most backends a renderer table of the model holds
MaxBackends == 3

\* the longest Accept header of a rendered request, in items
MaxAcceptLen == 2

RenderRanges == {"text/html", "application/json", "application/xml", "image/png", "*/*"}

RenderQualities == {1, 10}

RenderItems == [range : RenderRanges, q : RenderQualities]

\* no 'format' in params, no 'format' in request.GET
NoFormat == "<none>"

\* str.lstrip('.') on the strings the model uses
LStripDot(s) ==
    CASE s = ".json" -> "json"
      [] s = ".xml" -> "xml"
      [] s = ".html" -> "html"
      [] s = ".png" -> "png"
      [] OTHER -> s

\* a value Python takes as true in a condition: neither None nor ''
Truthy(s) == s # NoFormat /\ s # ""

\* Resource._format
Format(f) == IF Truthy(f.param) THEN LStripDot(f.param) ELSE f.query

\* renderer._keys()
Keys(table) == [i \in DOMAIN table |-> table[i].key]

\* 'shortcode in renderer'
Contains(table, shortcode) == InSeq(shortcode, Keys(table))

\* request.META.get('HTTP_ACCEPT'): absent, or the header (which may be '')
NoAccept == [present |-> FALSE, items |-> <<>>]

AcceptGiven(acc) == acc.present /\ acc.items # <<>>

\* the Accept part of _match, with a missing or empty header read as '*/*':
\* every key of the table
AcceptMatchesDefaultingToAll(acc, table) ==
    IF AcceptGiven(acc) THEN MatchAccept(acc.items, Keys(table)) ELSE Keys(table)

\* the Accept part of _match: what 'if accept_header:' extends matches by
AcceptMatches(acc, table) ==
    IF AcceptGiven(acc) THEN MatchAccept(acc.items, Keys(table)) ELSE <<>>

\* the format part of _match without its 'format_override in self._keys()' test
FormatMatchesUnchecked(f, table) ==
    IF Truthy(Format(f)) THEN <<Format(f)>> ELSE <<>>

\* the format part of _match: the override, when it is a key of the table
FormatMatches(f, table) ==
    IF Truthy(Format(f)) /\ Contains(table, Format(f)) THEN <<Format(f)>> ELSE <<>>

\* _match with the Accept matches put before the format override
MatchAcceptFirst(table, f, acc) ==
    LET found == AcceptMatches(acc, table) \o FormatMatches(f, table) IN
    IF found = <<>> /\ Contains(table, "html") THEN <<"html">> ELSE found

\* _match without its final 'if not matches and "html" in self' step
MatchWithoutFallback(table, f, acc) ==
    FormatMatches(f, table) \o AcceptMatches(acc, table)

\* _match whose final step appends 'html' without its '"html" in self' test
MatchFallingBackUnchecked(table, f, acc) ==
    LET found == FormatMatches(f, table) \o AcceptMatches(acc, table) IN
    IF found = <<>> THEN <<"html">> ELSE found

\* Renderer._match
Match(table, f, acc) ==
    LET found == FormatMatches(f, table) \o AcceptMatches(acc, table) IN
    IF found = <<>> /\ Contains(table, "html") THEN <<"html">> ELSE found

\* a response that has no Content-Type header
NoContentType == ""

NoResponse == [kind |-> "none", status |-> 0, shortcode |-> "", content_type |-> NoContentType]

\* HttpResponse(status=...): Django gives it its default Content-Type
HttpResponse(status) ==
    [kind |-> "response", status |-> status, shortcode |-> "", content_type |-> "text/html"]

\* del response['Content-Type']
DelContentType(resp) == [resp EXCEPT !.content_type = NoContentType]

\* not_acceptable that leaves the default Content-Type on its response
NotAcceptableKeepingContentType == HttpResponse(406)

\* renderer.not_acceptable: a 406 response with its Content-Type deleted
NotAcceptable == DelContentType(HttpResponse(406))

\* what a backend that answers returns: a 200 response of its own mimetype
BackendResponse(shortcode) ==
    [kind |-> "response", status |-> 200, shortcode |-> shortcode,
     content_type |-> MIMETYPES[shortcode]]

\* a failure of the backend, which leaves Renderer.__call__ as an exception
BackendFailure(shortcode) ==
    [kind |-> "raise", status |-> 0, shortcode |-> shortcode, content_type |-> NoContentType]

\* what a backend does when invoked: return a response, raise Skip, or fail
BackendOutcomes == {"ok", "skip", "raise"}

\* Renderer.__call__, up to the loop: _match builds the candidates; with none
\* the loop body never runs and not_acceptable answers
RenderCall ==
    /\ pc = "idle"
    /\ LET found == Match(backends, fmt, accept) IN
       /\ matches' = found
       /\ idx' = 1
       /\ IF found = <<>>
          THEN pc' = "done" /\ response' = NotAcceptable
          ELSE pc' = "loop" /\ UNCHANGED response
    /\ UNCHANGED <<backends, accept, fmt, log>>

\* one turn of the loop where Skip ends the render with not_acceptable
InvokeSkipEnding ==
    /\ pc = "loop"
    /\ \E outcome \in BackendOutcomes :
        /\ log' = Append(log, [shortcode |-> matches[idx], outcome |-> outcome])
        /\ idx' = idx + 1
        /\ pc' = "done"
        /\ response' = CASE outcome = "ok" -> BackendResponse(matches[idx])
                         [] outcome = "raise" -> BackendFailure(matches[idx])
                         [] OTHER -> NotAcceptable
    /\ UNCHANGED <<backends, accept, fmt, matches>>

\* one turn of the loop where the Skip of the last candidate is not caught
InvokeSkipLeaking ==
    /\ pc = "loop"
    /\ \E outcome \in BackendOutcomes :
        /\ log' = Append(log, [shortcode |-> matches[idx], outcome |-> outcome])
        /\ idx' = idx + 1
        /\ CASE outcome = "ok" ->
                  /\ pc' = "done"
                  /\ response' = BackendResponse(matches[idx])
             [] outcome = "raise" ->
                  /\ pc' = "done"
                  /\ response' = BackendFailure(matches[idx])
             [] OTHER ->
                  IF idx < Len(matches)
                  THEN pc' = "loop" /\ UNCHANGED response
                  ELSE pc' = "done" /\ response' = BackendFailure(matches[idx])
    /\ UNCHANGED <<backends, accept, fmt, matches>>

\* one turn of the loop where a backend's response is kept and the loop goes on
InvokeContinuingAfterResponse ==
    /\ pc = "loop"
    /\ \E outcome \in BackendOutcomes :
        /\ log' = Append(log, [shortcode |-> matches[idx], outcome |-> outcome])
        /\ idx' = idx + 1
        /\ CASE outcome = "ok" ->
                  /\ pc' = IF idx < Len(matches) THEN "loop" ELSE "done"
                  /\ response' = BackendResponse(matches[idx])
             [] outcome = "raise" ->
                  /\ pc' = "done"
                  /\ response' = BackendFailure(matches[idx])
             [] OTHER ->
                  IF idx < Len(matches)
                  THEN pc' = "loop" /\ UNCHANGED response
                  ELSE pc' = "done" /\ response' = NotAcceptable
    /\ UNCHANGED <<backends, accept, fmt, matches>>

\* one turn of the loop of Renderer.__call__: the backend of matches[idx] is
\* invoked; its response is returned, its failure propagates, its Skip moves on
\* to the next candidate, and after the last candidate not_acceptable answers
Invoke ==
    /\ pc = "loop"
    /\ \E outcome \in BackendOutcomes :
        /\ log' = Append(log, [shortcode |-> matches[idx], outcome |-> outcome])
        /\ idx' = idx + 1
        /\ CASE outcome = "ok" ->
                  /\ pc' = "done"
                  /\ response' = BackendResponse(matches[idx])
             [] outcome = "raise" ->
                  /\ pc' = "done"
                  /\ response' = BackendFailure(matches[idx])
             [] OTHER ->
                  IF idx < Len(matches)
                  THEN pc' = "loop" /\ UNCHANGED response
                  ELSE pc' = "done" /\ response' = NotAcceptable
    /\ UNCHANGED <<backends, accept, fmt, matches>>

RenderTables(n) ==
    {[i \in DOMAIN ks |-> [key |-> ks[i], value |-> ks[i]]] :
        ks \in {s \in SeqsUpTo(Shortcodes, n) : IsDuplicateFree(s)}}

\* a renderer table and the request it is to render
InitRender ==
    /\ backends \in RenderTables(MaxBackends)
    /\ accept \in {NoAccept} \cup [present : {TRUE}, items : SeqsUpTo(RenderItems, MaxAcceptLen)]
    /\ fmt \in [param : {NoFormat, ".xml"}, query : {NoFormat, "json", "png"}]
    /\ pc = "idle"
    /\ matches = <<>>
    /\ idx = 1
    /\ log = <<>>
    /\ response = NoResponse

\* no render is under study
IdleRender ==
    /\ backends = <<>>
    /\ accept = NoAccept
    /\ fmt = [param |-> NoFormat, query |-> NoFormat]
    /\ pc = "idle"
    /\ matches = <<>>
    /\ idx = 1
    /\ log = <<>>
    /\ response = NoResponse

-----------------------------------------------------------------------------
(* Renderer tables as objects: set, delete, _bind (dagny/renderer.py) and  *)
(* the renderer an action's requests render with (dagny/action.py).        *)

MaxOps == 4

TableKeys == {"html", "json"}

\* the backends assigned in the model, by name
Functions == {"f", "g"}

Requests == {1, 2}

\* del table[k] on a table that has k
DelItem(table, k) == SelectSeq(table, LAMBDA e : e.key # k)

\* table[k] = v that always puts the entry at the end
SetItemMovingToEnd(table, k, v) == Append(DelItem(table, k), [key |-> k, value |-> v])

\* table[k] = v on the odict: a present key keeps its place and takes the new
\* value, an absent key is added at the end
SetItem(table, k, v) ==
    IF Contains(table, k)
    THEN [i \in DOMAIN table |-> IF table[i].key = k THEN [key |-> k, value |-> v]
                                                     ELSE table[i]]
    ELSE Append(table, [key |-> k, value |-> v])

RECURSIVE InsertAll(_, _)
InsertAll(dst, src) ==
    IF src = <<>> THEN dst
    ELSE InsertAll(SetItem(dst, Head(src).key, Head(src).value), Tail(src))

\* backends.copy(): a new odict given the items of the old one, in order
Copy(table) == InsertAll(<<>>, table)

\* an odict object: its entries and, for each key, the count of operations at
\* which the key was last added while absent (0: never) and the value last
\* assigned to it
EmptyTable == [table |-> <<>>,
               since |-> [k \in TableKeys |-> 0],
               put |-> [k \in TableKeys |-> "<none>"]]

\* the object after table[k] = v made as operation number n
ObjSet(obj, k, v, n) ==
    [table |-> SetItem(obj.table, k, v),
     since |-> IF Contains(obj.table, k) THEN obj.since ELSE [obj.since EXCEPT ![k] = n],
     put |-> [obj.put EXCEPT ![k] = v]]

\* the object after del table[k]
ObjDel(obj, k) == [obj EXCEPT !.table = DelItem(obj.table, k)]

\* the object backends.copy() creates; its keys were added in the source's order
ObjCopy(obj) == [obj EXCEPT !.table = Copy(obj.table)]

\* the tables code outside a request can reach: the generic one and, once the
\* action exists, the action's
Reachable == {1} \cup (IF bound = 0 THEN {} ELSE {bound})

NotSeen == <<[key |-> "<none>", value |-> "<none>"]>>

NewRequest == [stage |-> "new", table |-> 0, start |-> NotSeen, seen |-> NotSeen,
               touched |-> FALSE]


\* Action.RENDERER = Renderer(): one empty generic table, no action yet
InitTables ==
    /\ heap = <<EmptyTable>>
    /\ bound = 0
    /\ clock = 0
    /\ handling = <<>>

RECURSIVE Defined(_)
\* the generic table after renderer[k] = "f" for each k of ks, in order
Defined(ks) ==
    IF ks = <<>> THEN EmptyTable
    ELSE ObjSet(Defined(SubSeq(ks, 1, Len(ks) - 1)), ks[Len(ks)], "f", Len(ks))

\* a resource class is defined: the generic table has its backends and the
\* action has its bound copy; no request has begun
InitRequests ==
    /\ \E ks \in {q \in SeqsUpTo(TableKeys, Cardinality(TableKeys)) : IsDuplicateFree(q)} :
          /\ heap = <<Defined(ks), ObjCopy(Defined(ks))>>
          /\ clock = Len(ks)
    /\ bound = 2
    /\ handling = [r \in Requests |-> NewRequest]

\* no table is under study
IdleTables ==
    /\ heap = <<>>
    /\ bound = 0
    /\ clock = 0
    /\ handling = <<>>

\* renderer[k] = v, on the generic renderer or on the action's
TableSet ==
    /\ clock < MaxOps
    /\ \E t \in Reachable, k \in TableKeys, v \in Functions :
          heap' = [heap EXCEPT ![t] = ObjSet(heap[t], k, v, clock + 1)]
    /\ clock' = clock + 1
    /\ UNCHANGED <<bound, handling>>

\* del renderer[k], on the generic renderer or on the action's
TableDel ==
    /\ clock < MaxOps
    /\ \E t \in Reachable, k \in TableKeys :
          /\ Contains(heap[t].table, k)
          /\ heap' = [heap EXCEPT ![t] = ObjDel(heap[t], k)]
    /\ clock' = clock + 1
    /\ UNCHANGED <<bound, handling>>

\* _bind that hands the generic renderer's own odict to the bound renderer
BindSharing ==
    /\ bound = 0
    /\ bound' = 1
    /\ UNCHANGED <<heap, clock, handling>>

\* Action.__init__: self.render = self.RENDERER._bind(self); the BoundRenderer
\* is given a copy of the generic renderer's odict
Bind ==
    /\ bound = 0
    /\ heap' = Append(heap, ObjCopy(heap[1]))
    /\ bound' = Len(heap) + 1
    /\ UNCHANGED <<clock, handling>>

\* Action.__get__ that gives each resource instance a copy of the action's table
GetActionCopying ==
    \E r \in Requests :
        /\ bound # 0
        /\ handling[r].stage = "new"
        /\ heap' = Append(heap, ObjCopy(heap[bound]))
        /\ handling' = [handling EXCEPT ![r] = [NewRequest EXCEPT !.stage = "started",
                                                        !.table = Len(heap) + 1,
                                                        !.start = heap[bound].table]]
        /\ UNCHANGED <<bound, clock>>

\* Action.__get__ on a resource instance: a BoundAction whose render() goes to
\* action.render, the one BoundRenderer of the action
GetAction ==
    \E r \in Requests :
        /\ bound # 0
        /\ handling[r].stage = "new"
        /\ handling' = [handling EXCEPT ![r] = [NewRequest EXCEPT !.stage = "started",
                                                        !.table = bound,
                                                        !.start = heap[bound].table]]
        /\ UNCHANGED <<heap, bound, clock>>

\* the code handling a request sets or deletes a backend of the renderer its
\* BoundAction renders with
RequestMutate ==
    \E r \in Requests :
        /\ handling[r].stage = "started"
        /\ clock < MaxOps
        /\ LET t == handling[r].table IN
           \/ \E k \in TableKeys, v \in Functions :
                 heap' = [heap EXCEPT ![t] = ObjSet(heap[t], k, v, clock + 1)]
           \/ \E k \in TableKeys :
                 /\ Contains(heap[t].table, k)
                 /\ heap' = [heap EXCEPT ![t] = ObjDel(heap[t], k)]
        /\ clock' = clock + 1
        /\ handling' = [handling EXCEPT ![r].touched = TRUE]
        /\ UNCHANGED bound

\* BoundAction.render: self.action.render(self.resource); the request is
\* rendered from the table as it is at that moment
RenderRequest ==
    \E r \in Requests :
        /\ handling[r].stage = "started"
        /\ handling' = [handling EXCEPT ![r].stage = "rendered",
                              ![r].seen = heap[handling[r].table].table]
        /\ UNCHANGED <<heap, bound, clock>>

-----------------------------------------------------------------------------
(* URL routing: URLRouter (dagny/urls/router.py) on the URL styles of      *)
(* dagny/urls/styles.py. A regular expression is kept as the list of the   *)
(* pieces the code joins into it; a route name likewise.                   *)

\* the whitelists tried have at most this many action names
MaxWhitelist == 2

Styles == {"django", "atompub", "rails"}

Slots == {"collection", "new", "member", "edit", "singleton", "singleton_edit"}

RouteActions == {"index", "create", "new", "show", "update", "destroy", "edit"}

\* URLStyle.METHODS
METHODS ==
    [slot \in Slots |->
        CASE slot = "collection" -> ("GET" :> "index" @@ "POST" :> "create")
          [] slot \in {"member", "singleton"} ->
                ("GET" :> "show" @@ "POST" :> "update" @@ "PUT" :> "update"
                   @@ "DELETE" :> "destroy")
          [] slot = "new" -> ("GET" :> "new")
          [] OTHER -> ("GET" :> "edit")]

\* an id parameter: a regex fragment (a string) or a (name, regex) pair
IdString(regex) == [pair |-> FALSE, name |-> "", regex |-> regex]

IdPair(name, regex) == [pair |-> TRUE, name |-> name, regex |-> regex]

IdParams == {IdString("\\d+"), IdString("\\w+"), IdPair("slug", "\\w+")}

\* _get_id_regex that names a bare fragment 'id' in every style
GetIdRegexNamingAll(st, id_param) ==
    LET p == IF ~id_param.pair THEN IdPair("id", id_param.regex) ELSE id_param IN
    <<"?P<", p.name, ">", p.regex>>

\* URLStyle._get_id_regex, and RailsURLStyle's override which names a bare
\* fragment 'id' (no fragment of the model starts with '?P<')
GetIdRegex(st, id_param) ==
    LET p == IF st = "rails" /\ ~id_param.pair THEN IdPair("id", id_param.regex)
                                              ELSE id_param IN
    IF p.pair THEN <<"?P<", p.name, ">", p.regex>> ELSE <<p.regex>>

FORMAT_EXTENSION_RE == "(?P<format>\\.\\w[\\w\\-\\.]*)"

\* the collection(), new(), member(), edit(), singleton() and singleton_edit()
\* methods of the three styles; a pattern is the list of the atoms of the
\* regular expression: anchors, literals, the id group, the format group and
\* the postfix '?'
StylePattern(st, slot, id_regex) ==
    CASE st = "django" ->
           CASE slot \in {"collection", "singleton"} -> <<"^", "$">>
             [] slot = "new" -> <<"^", "new", "/", "$">>
             [] slot = "member" -> <<"^", "(">> \o id_regex \o <<")", "/", "$">>
             [] slot = "edit" -> <<"^", "(">> \o id_regex \o <<")", "/", "edit", "/", "$">>
             [] OTHER -> <<"^", "edit", "/", "$">>
      [] st = "atompub" ->
           CASE slot \in {"collection", "singleton"} -> <<"^", "$">>
             [] slot = "new" -> <<"^", "new", "$">>
             [] slot = "member" -> <<"^", "(">> \o id_regex \o <<")", "$">>
             [] slot = "edit" -> <<"^", "(">> \o id_regex \o <<")", "/", "edit", "$">>
             [] OTHER -> <<"^", "edit", "$">>
      [] OTHER ->
           CASE slot \in {"collection", "singleton"} ->
                  <<"^", FORMAT_EXTENSION_RE, "?", "/", "?", "$">>
             [] slot = "new" -> <<"^", "/", "new", "/", "?", "$">>
             [] slot = "member" ->
                  <<"^", "/", "(">> \o id_regex \o <<")", FORMAT_EXTENSION_RE, "?", "/", "?", "$">>
             [] slot = "edit" ->
                  <<"^", "/", "(">> \o id_regex \o <<")", "/", "edit", "/", "?", "$">>
             [] OTHER -> <<"^", "/", "edit", "/", "?", "$">>

\* what calling a style gives: a (pattern, methods) pair, or an exception
StyleRaised(exc) == [raised |-> TRUE, error |-> exc, pattern |-> <<>>, methods |-> <<>>]

StyleReturned(pattern, methods) ==
    [raised |-> FALSE, error |-> "", pattern |-> pattern, methods |-> methods]

\* the positional parameters of URLStyle.__call__ after self: url, id_param
StyleParameters == <<"url", "id_param">>

\* URLStyle.__call__ of a Rails style whose new() allows a format extension
StyleCallNewWithFormat(st, args) ==
    IF Len(args) # Len(StyleParameters) THEN StyleRaised("TypeError")
    ELSE IF args[1] \notin Slots THEN StyleRaised("AttributeError")
    ELSE IF st = "rails" /\ args[1] = "new"
         THEN StyleReturned(<<"^", "/", "new", FORMAT_EXTENSION_RE, "?", "/", "?", "$">>,
                            METHODS[args[1]])
    ELSE StyleReturned(StylePattern(st, args[1], GetIdRegex(st, args[2])), METHODS[args[1]])

\* style(*args): URLStyle.__call__. Python raises TypeError when the number of
\* arguments is not the number of parameters, and getattr(self, url) raises
\* AttributeError when the style has no method of that name
StyleCall(st, args) ==
    IF Len(args) # Len(StyleParameters) THEN StyleRaised("TypeError")
    ELSE IF args[1] \notin Slots THEN StyleRaised("AttributeError")
    ELSE StyleReturned(StylePattern(st, args[1], GetIdRegex(st, args[2])), METHODS[args[1]])


\* an entry of action_patterns: (action_name, action_param)
ActionPattern(action_name, action_param) ==
    [action_name |-> action_name, action_param |-> action_param]

\* the action_patterns of URLRouter.resources
PluralPatterns ==
    <<ActionPattern("index", "index"), ActionPattern("create", "index"),
      ActionPattern("new", "new"), ActionPattern("show", "show"),
      ActionPattern("update", "show"), ActionPattern("destroy", "show"),
      ActionPattern("edit", "edit")>>

\* the action_patterns of URLRouter.resource
SingularPatterns ==
    <<ActionPattern("show", "show"), ActionPattern("create", "show"),
      ActionPattern("update", "show"), ActionPattern("destroy", "show"),
      ActionPattern("new", "new"), ActionPattern("edit", "edit")>>

\* name=None
NoName == "<none>"

\* actions=None
NoActions == [given |-> FALSE, names |-> {}]

Whitelist(names) == [given |-> TRUE, names |-> names]

Whitelists ==
    {NoActions} \cup {Whitelist(S) : S \in {T \in SUBSET RouteActions : Cardinality(T) <= MaxWhitelist}}

\* the set of action names _make_patterns generates routes for
ActionSet(actions, action_patterns) ==
    IF actions.given THEN actions.names
    ELSE {action_patterns[i].action_name : i \in DOMAIN action_patterns}

\* "%s#%s" % (name, action_name)
RouteName(name, action_name) == <<name, "#", action_name>>

\* kwargs={'action': action_param, 'mode': mode}: no 'methods' among them
RouteKwargs(action_param, mode) ==
    [has_methods |-> FALSE, methods |-> <<>>, action |-> action_param, mode |-> mode]

\* django's url(regex, view, kwargs, name)
Url(pattern, view, kw, name) == [pattern |-> pattern, view |-> view, kwargs |-> kw, name |-> name]

NotRouted == [state |-> "none", error |-> "", urls |-> <<>>]

\* include(patterns('', *urls))
Included(urls) == [state |-> "included", error |-> "", urls |-> urls]

RoutingRaised(exc) == [state |-> "raised", error |-> exc, urls |-> <<>>]

RECURSIVE MakeUrls(_, _, _, _, _, _, _, _)
\* the for loop of _make_patterns over what is left of action_patterns
MakeUrls(st, resource_name, id, name, actions, mode, left, urls) ==
    IF left = <<>> THEN Included(urls)
    ELSE LET action_name == Head(left).action_name
             action_param == Head(left).action_param IN
         IF action_name \notin actions
         THEN MakeUrls(st, resource_name, id, name, actions, mode, Tail(left), urls)
         ELSE LET called == StyleCall(st, <<action_param, mode, id>>) IN
              IF called.raised THEN RoutingRaised(called.error)
              ELSE MakeUrls(st, resource_name, id, name, actions, mode, Tail(left),
                            \* pattern = self.style(...): whatever the style returned
                            Append(urls, Url(called, resource_name,
                                             RouteKwargs(action_param, mode),
                                             RouteName(name, action_name))))

\* URLRouter._make_patterns
MakePatterns(st, resource_name, id, name, actions, mode, action_patterns) ==
    MakeUrls(st, resource_name, id,
             IF name = NoName THEN resource_name ELSE name,
             ActionSet(actions, action_patterns), mode, action_patterns, <<>>)

\* no resources() or resource() call made yet
NoMode == "<none>"

\* URLRouter.resources
ResourcesCall ==
    /\ routes = NotRouted
    /\ routing' = [routing EXCEPT !.mode = "plural"]
    /\ routes' = MakePatterns(style, routing.resource_name, routing.id, routing.name,
                              routing.actions, "plural", PluralPatterns)
    /\ UNCHANGED style

\* URLRouter.resource
ResourceCall ==
    /\ routes = NotRouted
    /\ routing' = [routing EXCEPT !.mode = "singular"]
    /\ routes' = MakePatterns(style, routing.resource_name, IdString(""), routing.name,
                              routing.actions, "singular", SingularPatterns)
    /\ UNCHANGED style

\* a router of one of the three styles and the arguments of a call to be made
InitRouting ==
    /\ style \in Styles
    /\ routing \in [resource_name : {"users.resources.User"}, id : IdParams,
                    actions : Whitelists, name : {NoName, "User"}, mode : {NoMode}]
    /\ routes = NotRouted

\* no routing is under study
IdleRouting ==
    /\ style = "django"
    /\ routing = [resource_name |-> "", id |-> IdString(""), actions |-> NoActions,
                  name |-> NoName, mode |-> NoMode]
    /\ routes = NotRouted

-----------------------------------------------------------------------------
(* The patterns of the styles matched against paths. A path is a list of   *)
(* tokens: '/', '.', and words (maximal runs of word characters).          *)

MaxPathLen == 6

\* words made of digits, and all words
DigitWords == {"1"}

PathWords == {"1", "new", "edit", "foobar"}

PathTokens == {"/", "."} \cup PathWords

\* no two words stand side by side in a path: they would be one word
Paths ==
    {p \in SeqsUpTo(PathTokens, MaxPathLen) :
        \A i \in 1..(Len(p) - 1) : ~(p[i] \in PathWords /\ p[i + 1] \in PathWords)}

\* the words a character class followed by '+' matches whole
ClassWords(cls) == IF cls = "\\d+" THEN DigitWords ELSE PathWords

\* a captured group: its name ('' for an unnamed group) and the text captured
Capture(name, value) == [name |-> name, value |-> value]

\* the number of atoms the construct starting at re[i] takes
AtomLen(re, i) ==
    IF re[i] # "(" THEN 1 ELSE IF re[i + 1] = "?P<" THEN 6 ELSE 3

\* the ways the construct starting at re[i] matches the path from position j:
\* where the match ends and what it captured
AtomEnds(re, i, p, j) ==
    CASE re[i] = "^" -> IF j = 1 THEN {[j |-> j, cap |-> <<>>]} ELSE {}
      [] re[i] = "$" -> IF j = Len(p) + 1 THEN {[j |-> j, cap |-> <<>>]} ELSE {}
      [] re[i] = "(" ->
            LET named == re[i + 1] = "?P<"
                cls == IF named THEN re[i + 4] ELSE re[i + 1]
                name == IF named THEN re[i + 2] ELSE "" IN
            IF j <= Len(p) /\ p[j] \in ClassWords(cls)
            THEN {[j |-> j + 1, cap |-> <<Capture(name, <<p[j]>>)>>]}
            ELSE {}
      [] re[i] = FORMAT_EXTENSION_RE ->
            {[j |-> e + 1, cap |-> <<Capture("format", SubSeq(p, j, e))>>] :
                e \in {e \in (j + 1)..Len(p) :
                         /\ p[j] = "."
                         /\ p[j + 1] \in PathWords
                         /\ \A k \in (j + 2)..e : p[k] \in PathWords \cup {"."}}}
      [] OTHER -> IF j <= Len(p) /\ p[j] = re[i] THEN {[j |-> j + 1, cap |-> <<>>]} ELSE {}

RECURSIVE RegexMatch(_, _, _, _, _)
\* the captures of every way the regular expression, from atom i on, matches
\* the path from position j on; a construct followed by '?' may be left out
RegexMatch(re, i, p, j, caps) ==
    IF i > Len(re) THEN {caps}
    ELSE LET n == AtomLen(re, i)
             optional == i + n <= Len(re) /\ re[i + n] = "?"
             next == IF optional THEN i + n + 1 ELSE i + n
             taken == UNION {RegexMatch(re, next, p, e.j, caps \o e.cap) :
                                e \in AtomEnds(re, i, p, j)} IN
         IF optional THEN taken \cup RegexMatch(re, next, p, j, caps) ELSE taken

\* re.search(pattern, path): the set of capture lists, empty when no match
Search(re, p) == RegexMatch(re, 1, p, 1, <<>>)

NotBuilt == [slot \in Slots |-> StyleRaised("")]

\* the path has not been matched yet
NoHits == [done |-> FALSE, slots |-> [slot \in Slots |-> {}]]

\* style(slot, id_param) for each of the six slots
BuildPatterns ==
    /\ built = NotBuilt
    /\ built' = [slot \in Slots |-> StyleCall(style, <<slot, id_arg>>)]
    /\ UNCHANGED <<style, id_arg, path, hits>>

\* the path is matched against the pattern of each slot
MatchPath ==
    /\ built # NotBuilt
    /\ ~hits.done
    /\ hits' = [done |-> TRUE,
                slots |-> [slot \in Slots |->
                             IF built[slot].raised THEN {}
                             ELSE Search(built[slot].pattern, path)]]
    /\ UNCHANGED <<style, id_arg, built, path>>

\* a style, an id parameter and a path
InitStyle ==
    /\ style \in Styles
    /\ id_arg \in IdParams
    /\ path \in Paths
    /\ built = NotBuilt
    /\ hits = NoHits

\* no style is under study
IdleStyle ==
    /\ id_arg = IdString("")
    /\ built = NotBuilt
    /\ path = <<>>
    /\ hits = NoHits

-----------------------------------------------------------------------------
(* Calling an action: BoundAction.__call__ and Action.deco                 *)
(* (dagny/action.py).                                                      *)

\* the action is defined with @action alone, or with @action.deco(decorator)
\* below it, where the decorator's wrapper calls the view with what it was
\* given ("passes"), calls it with other arguments ("modifies"), or returns a
\* response of its own without calling it ("blocks")
Wrappings == {"plain", "passes", "modifies", "blocks"}

\* what the action body does: return a response, return None, return another
\* value that is false in a condition, or fail
BodyReturns == {"response", "none", "falsy", "raise"}

\* what self.render() gives back: a backend's response, the 406 of
\* not_acceptable, or a backend's failure
RenderResults == {BackendResponse("html"), NotAcceptable, BackendFailure("html")}

Attributes(req, args, kw) == [request |-> req, args |-> args, params |-> kw]

\* what a modifying decorator calls the view with
Modified(a) ==
    Attributes("ModifiedRequest", <<"another_user">>, a.params \cup {"authenticated"})

NotRun == [runs |-> 0, saw |-> Attributes("", <<>>, {})]

\* a value returned by the action method or a failure raised in it: where it
\* comes from, and whether 'if response:' takes it as true
Value(by, what) ==
    [by |-> by, what |-> what, truthy |-> what = "response", response |-> NoResponse]

\* what the renderer gave back
Rendered(r) == [by |-> "render", what |-> r.kind, truthy |-> TRUE, response |-> r]

NotCalled == [stage |-> "bound", method |-> Value("", ""), renders |-> 0,
              result |-> Value("", "")]

\* the action body is run on the resource as it stands
RunBody(a, ret) ==
    /\ body' = [runs |-> body.runs + 1, saw |-> a]
    /\ invocation' = [invocation EXCEPT !.stage = "returned", !.method = Value("body", ret)]

\* Action.deco whose adapter leaves the resource's attributes as they were
DecoratedNotAdapting(ret) ==
    CASE wrapping = "blocks" ->
           /\ invocation' = [invocation EXCEPT !.stage = "returned",
                                               !.method = Value("decorator", "response")]
           /\ UNCHANGED <<attrs, body>>
      [] OTHER -> RunBody(attrs, ret) /\ UNCHANGED attrs

\* action_wrapper of Action.deco: decorator(adapter)(self.request, *args,
\* **self.params); when the decorator's wrapper calls the adapter, the adapter
\* sets the resource's request, args and params to what it was called with and
\* then runs the action body
Decorated(ret) ==
    CASE wrapping = "blocks" ->
           /\ invocation' = [invocation EXCEPT !.stage = "returned",
                                               !.method = Value("decorator", "response")]
           /\ UNCHANGED <<attrs, body>>
      [] wrapping = "modifies" ->
           /\ attrs' = Modified(attrs)
           /\ RunBody(Modified(attrs), ret)
      [] OTHER ->
           /\ attrs' = attrs
           /\ RunBody(attrs, ret)

\* BoundAction.__call__, first line:
\* response = self.action.method(self.resource, *self.resource.args)
RunMethod ==
    /\ invocation.stage = "bound"
    /\ \E ret \in BodyReturns :
          IF wrapping = "plain"
          THEN RunBody(attrs, ret) /\ UNCHANGED attrs
          ELSE Decorated(ret)
    /\ UNCHANGED wrapping

\* the rest of BoundAction.__call__ where the renderer is run whatever the
\* method returned
FinishCallAlwaysRendering ==
    /\ invocation.stage = "returned"
    /\ IF invocation.method.what = "raise"
       THEN invocation' = [invocation EXCEPT !.stage = "done", !.result = invocation.method]
       ELSE \E r \in RenderResults :
               invocation' = [invocation EXCEPT !.stage = "done",
                                                !.renders = invocation.renders + 1,
                                                !.result = Rendered(r)]
    /\ UNCHANGED <<wrapping, attrs, body>>

\* the rest of BoundAction.__call__: an exception of the method propagates;
\* 'if response: return response'; otherwise 'return self.render()'
FinishCall ==
    /\ invocation.stage = "returned"
    /\ IF invocation.method.what = "raise" \/ invocation.method.truthy
       THEN invocation' = [invocation EXCEPT !.stage = "done", !.result = invocation.method]
       ELSE \E r \in RenderResults :
               invocation' = [invocation EXCEPT !.stage = "done",
                                                !.renders = invocation.renders + 1,
                                                !.result = Rendered(r)]
    /\ UNCHANGED <<wrapping, attrs, body>>

\* a resource instance and the BoundAction of one of its actions
InitAction ==
    /\ wrapping \in Wrappings
    /\ attrs \in {Attributes(r, a, k) : r \in {"Request"},
                                       a \in {<<>>, <<"some_user">>},
                                       k \in SUBSET {"format", "next"}}
    /\ body = NotRun
    /\ invocation = NotCalled

\* no action call is under study
IdleAction ==
    /\ wrapping = "plain"
    /\ attrs = Attributes("", <<>>, {})
    /\ body = NotRun
    /\ invocation = NotCalled

-----------------------------------------------------------------------------
(* The specifications.                                                     *)

InitRes == InitResource /\ IdleConneg /\ IdleRender /\ IdleTables /\ IdleRouting /\ IdleStyle /\ IdleAction

CallResource == Call /\ UNCHANGED <<negVars, renVars, tabVars, urlVars, styVars, actVars>>

NextResource == CallResource

SpecResource == InitRes /\ [][NextResource]_vars

InitNeg == IdleResource /\ InitConneg /\ IdleRender /\ IdleTables /\ IdleRouting /\ IdleStyle /\ IdleAction

CallMatchAccept == MatchAcceptCall /\ UNCHANGED <<resVars, renVars, tabVars, urlVars, styVars, actVars>>

NextConneg == CallMatchAccept

SpecConneg == InitNeg /\ [][NextConneg]_vars

InitRen == IdleResource /\ IdleConneg /\ InitRender /\ IdleTables /\ IdleRouting /\ IdleStyle /\ IdleAction

StartRender == RenderCall /\ UNCHANGED <<resVars, negVars, tabVars, urlVars, styVars, actVars>>

InvokeBackend == Invoke /\ UNCHANGED <<resVars, negVars, tabVars, urlVars, styVars, actVars>>

NextRender == StartRender \/ InvokeBackend

SpecRender == InitRen /\ [][NextRender]_vars

InitTab == IdleResource /\ IdleConneg /\ IdleRender /\ InitTables /\ IdleRouting /\ IdleStyle /\ IdleAction

SetBackend == TableSet /\ UNCHANGED <<resVars, negVars, renVars, urlVars, styVars, actVars>>

DeleteBackend == TableDel /\ UNCHANGED <<resVars, negVars, renVars, urlVars, styVars, actVars>>

BindRenderer == Bind /\ UNCHANGED <<resVars, negVars, renVars, urlVars, styVars, actVars>>

NextTables == SetBackend \/ DeleteBackend \/ BindRenderer

SpecTables == InitTab /\ [][NextTables]_vars

InitReq == IdleResource /\ IdleConneg /\ IdleRender /\ InitRequests /\ IdleRouting /\ IdleStyle /\ IdleAction

GetBoundAction == GetAction /\ UNCHANGED <<resVars, negVars, renVars, urlVars, styVars, actVars>>

MutateInRequest == RequestMutate /\ UNCHANGED <<resVars, negVars, renVars, urlVars, styVars, actVars>>

RenderBoundAction == RenderRequest /\ UNCHANGED <<resVars, negVars, renVars, urlVars, styVars, actVars>>

NextRequests == GetBoundAction \/ MutateInRequest \/ RenderBoundAction

SpecRequests == InitReq /\ [][NextRequests]_vars

InitRout == IdleResource /\ IdleConneg /\ IdleRender /\ IdleTables /\ InitRouting /\ IdleStyle /\ IdleAction

RouteResources == ResourcesCall /\ UNCHANGED <<resVars, negVars, renVars, tabVars, styVars, actVars>>

RouteResource == ResourceCall /\ UNCHANGED <<resVars, negVars, renVars, tabVars, styVars, actVars>>

NextRouter == RouteResources \/ RouteResource

SpecRouter == InitRout /\ [][NextRouter]_vars

InitSty ==
    /\ IdleResource /\ IdleConneg /\ IdleRender /\ IdleTables
    /\ routing = [resource_name |-> "", id |-> IdString(""), actions |-> NoActions,
                  name |-> NoName, mode |-> NoMode]
    /\ routes = NotRouted
    /\ InitStyle
    /\ IdleAction

BuildStyle == BuildPatterns /\ UNCHANGED <<resVars, negVars, renVars, tabVars, routing, routes, actVars>>

ResolvePath == MatchPath /\ UNCHANGED <<resVars, negVars, renVars, tabVars, routing, routes, actVars>>

NextStyle == BuildStyle \/ ResolvePath

SpecStyle == InitSty /\ [][NextStyle]_vars

InitAct ==
    /\ IdleResource /\ IdleConneg /\ IdleRender /\ IdleTables /\ IdleRouting /\ IdleStyle
    /\ InitAction

CallMethod == RunMethod /\ UNCHANGED <<resVars, negVars, renVars, tabVars, urlVars, styVars>>

ReturnOrRender == FinishCall /\ UNCHANGED <<resVars, negVars, renVars, tabVars, urlVars, styVars>>

NextAction == CallMethod \/ ReturnOrRender

SpecAction == InitAct /\ [][NextAction]_vars


-----------------------------------------------------------------------------
(* Properties of the dispatcher, properties of SpecResource.               *)

\* the methods of the route's table that lead to an action the resource has
ImplementedMethods == {m \in DOMAIN kwargs.methods : kwargs.methods[m] \in implemented}

\* the instance has been called on a route that carries a 'methods' table
Dispatched == called_yet /\ kwargs.has_methods

\* C1: _route answers NotFound (404) exactly when no method of the table maps to
\* an implemented action; otherwise NotAllowed (405) with exactly the methods
\* that map to an implemented action when the request's method is not one of
\* them; otherwise it invokes the action of the request's method, and no other.
C1_RouteDecides ==
    Dispatched =>
        LET M == DispatchMethod(request) IN
        /\ (decision.kind = "not_found") <=> (ImplementedMethods = {})
        /\ decision.kind = "not_found" =>
              /\ returned[1] = Raised("Http404")
              /\ executed = <<>>
        /\ (ImplementedMethods # {} /\ M \notin ImplementedMethods) =>
              /\ decision.kind = "not_allowed"
              /\ decision.allow = ImplementedMethods
              /\ returned[1].status = 405
              /\ returned[1].allow = ImplementedMethods
              /\ executed = <<>>
        /\ M \in ImplementedMethods =>
              /\ decision.kind = "invoke"
              /\ decision.action = kwargs.methods[M]
              /\ executed = <<kwargs.methods[M]>>

\* a 405 whose allowed set is a proper, non-singleton part of the table's methods
C1_Witness ==
    /\ Dispatched
    /\ decision.kind = "not_allowed"
    /\ Cardinality(decision.allow) = 2
    /\ Cardinality(DOMAIN kwargs.methods) = 3
    /\ DispatchMethod(request) \in DOMAIN kwargs.methods

\* C2: over any number of calls of one instance the action's body runs at most
\* once, and a call made after the first neither routes nor runs anything.
C2_DispatchedAtMostOnce ==
    /\ Len(executed) <= 1
    /\ Len(returned) >= 1 => called_yet
    /\ \A i \in 2..Len(returned) : returned[i].kind = "self"
    /\ executed # <<>> => (decision.kind = "invoke" /\ executed = <<decision.action>>)

\* the instance was called three times after an action ran
C2_Witness == Len(returned) >= 3 /\ Len(executed) = 1

\* C3 as stated: a second call after a successful first dispatch returns the
\* result that the first call returned.
C3_SecondCallSameResult ==
    \A i \in 2..Len(returned) :
        returned[1].kind = "response" => returned[i] = returned[1]

\* C3 as the code has it: a call after the first returns the Resource instance
\* itself, never the first call's response, and leaves the first result alone.
C3_SecondCallReturnsSelf ==
    \A i \in 2..Len(returned) :
        /\ returned[i] = ReturnedSelf
        /\ returned[i] # returned[1]

\* a second call was made after the first one returned an action's response
C3_Witness ==
    /\ Len(returned) >= 2
    /\ returned[1].kind = "response"
    /\ returned[1].status = 200

-----------------------------------------------------------------------------
(* Properties of match_accept, properties of SpecConneg.                   *)

\* the header lists the media range r
Listed(hdr, r) == \E i \in DOMAIN hdr : hdr[i].range = r

\* the quality the header gives the media range r
QualityOf(hdr, r) ==
    LET qs == {hdr[i].q : i \in {j \in DOMAIN hdr : hdr[j].range = r}} IN
    CHOOSE q \in qs : \A p \in qs : p <= q

\* the type/* range a mimetype falls under
SubtypeWildcard(mimetype) == IF mimetype = "text/html" THEN "text/*" ELSE "application/*"

\* the quality the client gives a mimetype: that of the most specific range of
\* the header that matches it, 0 when none does
ClientQuality(hdr, mimetype) ==
    IF Listed(hdr, mimetype) THEN QualityOf(hdr, mimetype)
    ELSE IF Listed(hdr, SubtypeWildcard(mimetype))
         THEN QualityOf(hdr, SubtypeWildcard(mimetype))
         ELSE IF Listed(hdr, "*/*") THEN QualityOf(hdr, "*/*") ELSE 0

\* the position of a shortcode in the candidate list
Position(sc) == IndexOf(shortcodes, sc)

\* a header of plain media types, each with a positive quality: what the client
\* accepts is then beyond dispute
PlainHeader(hdr) ==
    \A i \in DOMAIN hdr : hdr[i].q > 0 /\ hdr[i].range \notin {"*/*", "text/*"}

\* no two candidates share a mimetype
DistinctMimetypes(codes) ==
    \A i, j \in DOMAIN codes : i # j => MIMETYPES[codes[i]] # MIMETYPES[codes[j]]

\* C4: match_accept returns the acceptable candidates by descending client
\* quality, candidate order breaking ties between equal qualities only. Stated
\* for plain headers and candidates of distinct mimetypes.
C4_QualityOrder ==
    (matched.done /\ PlainHeader(header) /\ DistinctMimetypes(shortcodes)) =>
        \A i, j \in DOMAIN matched.value :
            i < j =>
                LET qi == ClientQuality(header, MIMETYPES[matched.value[i]])
                    qj == ClientQuality(header, MIMETYPES[matched.value[j]])
                IN  \/ qi > qj
                    \/ qi = qj /\ Position(matched.value[i]) <= Position(matched.value[j])

\* every item of the header has the same quality
SameQuality(hdr) == \A i, j \in DOMAIN hdr : hdr[i].q = hdr[j].q

\* C5: for a header whose media types all have the same quality, match_accept
\* returns exactly the candidates whose mimetype is listed, in candidate order.
\* Stated for plain headers.
C5_EqualQualityServerOrder ==
    (matched.done /\ SameQuality(header) /\ PlainHeader(header)) =>
        matched.value = SelectSeq(shortcodes, LAMBDA sc : Listed(header, MIMETYPES[sc]))

\* C6: the result is a sublist of the (duplicate-free) candidates: every
\* returned shortcode is a candidate the client accepts with quality > 0, none
\* appears twice and every acceptable candidate appears, also when two
\* candidates share a mimetype. Stated for plain headers.
C6_SublistOfCandidates ==
    (matched.done /\ PlainHeader(header)) =>
        /\ IsDuplicateFree(matched.value)
        /\ \A i \in DOMAIN matched.value :
              /\ matched.value[i] \in Range(shortcodes)
              /\ ClientQuality(header, MIMETYPES[matched.value[i]]) > 0
        /\ \A sc \in Range(shortcodes) :
              ClientQuality(header, MIMETYPES[sc]) > 0 => sc \in Range(matched.value)
        /\ \A i, j \in DOMAIN matched.value :
              i < j => Position(matched.value[i]) < Position(matched.value[j])

\* C7: a candidate whose mimetype only a wildcard range of the header matches,
\* with quality > 0, is in the result.
C7_WildcardIncluded ==
    matched.done =>
        \A sc \in Range(shortcodes) :
            (/\ ~Listed(header, MIMETYPES[sc])
             /\ ClientQuality(header, MIMETYPES[sc]) > 0) => sc \in Range(matched.value)

-----------------------------------------------------------------------------
(* Properties of the renderer, properties of SpecRender.                   *)

\* _match has run
Negotiated == pc # "idle"

\* C8 as stated: with a missing or empty Accept header (and no format override)
\* the candidate list is every shortcode of the table, in table order.
C8_MissingAcceptAllKeys ==
    (Negotiated /\ ~AcceptGiven(accept) /\ ~Truthy(Format(fmt))) =>
        matches = Keys(backends)

\* C8 as the code has it: a missing or empty Accept header adds no candidate;
\* the list is the format override alone when it is a key of the table, else
\* 'html' alone when 'html' is a key, else empty.
C8_MissingAcceptFallsBack ==
    (Negotiated /\ ~AcceptGiven(accept)) =>
        matches = IF Truthy(Format(fmt)) /\ InSeq(Format(fmt), Keys(backends))
                  THEN <<Format(fmt)>>
                  ELSE IF InSeq("html", Keys(backends)) THEN <<"html">> ELSE <<>>

\* no Accept header, no format, a table of several backends that does not start
\* with html: the render went to html alone
C8_Witness ==
    /\ pc = "done"
    /\ ~accept.present
    /\ ~Truthy(Format(fmt))
    /\ Len(backends) = 3
    /\ backends[1].key = "json"
    /\ log = <<[shortcode |-> "html", outcome |-> "ok"]>>

\* C9: an explicit format that is a key of the table has its backend invoked
\* first, before any backend the Accept header selects.
C9_ExplicitFormatFirst ==
    (Truthy(Format(fmt)) /\ InSeq(Format(fmt), Keys(backends))) =>
        /\ Negotiated => (matches # <<>> /\ matches[1] = Format(fmt))
        /\ log # <<>> => log[1].shortcode = Format(fmt)

\* format json on a table where the Accept header ranks xml first, both by
\* quality and by what match_accept returns; json was invoked
C9_Witness ==
    /\ Format(fmt) = "json"
    /\ InSeq("json", Keys(backends))
    /\ accept.present
    /\ accept.items = <<[range |-> "application/xml", q |-> 10],
                        [range |-> "application/json", q |-> 1]>>
    /\ MatchAccept(accept.items, Keys(backends))[1] = "xml"
    /\ log # <<>>
    /\ log[1].shortcode = "json"

\* C10: when a backend raises Skip and a later candidate exists, the backend of
\* the next candidate of the list is invoked next; the render never ends at a
\* Skip while untried candidates remain.
C10_SkipMovesToNext ==
    /\ Len(log) <= Len(matches)
    /\ \A i \in DOMAIN log :
          /\ log[i].shortcode = matches[i]
          /\ i < Len(log) => log[i].outcome = "skip"
    /\ (pc = "loop") <=> (Negotiated /\ Len(log) < Len(matches)
                            /\ (log # <<>> => log[Len(log)].outcome = "skip"))
    /\ pc = "loop" => idx = Len(log) + 1
    /\ (pc = "done" /\ log # <<>> /\ log[Len(log)].outcome = "skip") =>
          Len(log) = Len(matches)

\* the first candidate's backend raised Skip and the second one answered
C10_Witness ==
    /\ pc = "done"
    /\ Len(matches) = 3
    /\ Len(log) = 2
    /\ log[1].outcome = "skip"
    /\ log[2] = [shortcode |-> matches[2], outcome |-> "ok"]
    /\ response.status = 200

\* the shortcodes of the backends invoked so far, in order of invocation
Invoked == [i \in DOMAIN log |-> log[i].shortcode]

AllSkipped == \A i \in DOMAIN log : log[i].outcome = "skip"

\* C11: in a single render no backend is invoked more than once (stated for
\* tables whose keys have different mimetypes, where match_accept itself
\* returns no shortcode twice): the explicit format is not tried again when the
\* Accept header matches it too.
C11_NoBackendTwice ==
    DistinctMimetypes(Keys(backends)) => IsDuplicateFree(Invoked)

C13_SkipThenHtmlFallback ==
    (/\ pc = "done"
     /\ FormatMatches(fmt, backends) = <<>>
     /\ Len(AcceptMatches(accept, backends)) = 1
     /\ AcceptMatches(accept, backends)[1] # "html"
     /\ log # <<>>
     /\ log[1].outcome = "skip"
     /\ Contains(backends, "html")) =>
        /\ InSeq("html", Invoked)
        /\ log[Len(log)].outcome = "ok" => response = BackendResponse("html")

\* C14: when neither the format override nor the Accept header yields a
\* candidate, then with 'html' a key of the table the html backend is the one
\* invoked and, when it answers, its response is the one returned; without
\* 'html' in the table no backend is invoked and the outcome is 406.
C14_HtmlFallback ==
    (/\ Negotiated
     /\ FormatMatches(fmt, backends) = <<>>
     /\ AcceptMatches(accept, backends) = <<>>) =>
        IF Contains(backends, "html")
        THEN /\ matches = <<"html">>
             /\ pc = "done" =>
                   /\ Invoked = <<"html">>
                   /\ log[1].outcome = "ok" => response = BackendResponse("html")
        ELSE /\ pc = "done"
             /\ log = <<>>
             /\ response = NotAcceptable

\* Accept 'image/png' on a table of json and html only: html answered
C14_Witness ==
    /\ pc = "done"
    /\ accept.present
    /\ accept.items = <<[range |-> "image/png", q |-> 10]>>
    /\ ~Truthy(Format(fmt))
    /\ Keys(backends) = <<"json", "html">>
    /\ log = <<[shortcode |-> "html", outcome |-> "ok"]>>
    /\ response.status = 200
    /\ response.content_type = "text/html"

-----------------------------------------------------------------------------
(* Properties of renderer tables, properties of SpecTables.                *)

\* C15: in every table the keys are unique and stand in the order in which each
\* present key was last added while absent, and each key holds the backend
\* last assigned to it: assigning to a present key keeps its place, deleting
\* and assigning again puts it at the end.
C15_KeysInInsertionOrder ==
    \A t \in DOMAIN heap :
        LET ks == Keys(heap[t].table) IN
        /\ IsDuplicateFree(ks)
        /\ \A i, j \in DOMAIN ks : i < j => heap[t].since[ks[i]] < heap[t].since[ks[j]]
        /\ \A i \in DOMAIN ks : /\ heap[t].since[ks[i]] > 0
                                 /\ heap[t].table[i].value = heap[t].put[ks[i]]

\* on the generic table: html set, json set, html deleted, html set again
C15_Witness ==
    /\ bound = 0
    /\ Keys(heap[1].table) = <<"json", "html">>
    /\ heap[1].since["json"] = 2
    /\ heap[1].since["html"] = 4

\* C16: the step that binds gives the bound renderer a table with the entries
\* of the source table in the same order and leaves the source as it is; after
\* it, no set or delete changes both tables: one made on the bound table leaves
\* the source unchanged, one made on the source leaves the bound table unchanged.
C16_BoundTableIndependent ==
    [][/\ (bound = 0 /\ bound' # 0) =>
             (heap'[bound'].table = heap[1].table /\ heap'[1] = heap[1])
       /\ (bound # 0 /\ clock' # clock) =>
             (heap'[1] = heap[1] \/ heap'[bound] = heap[bound])]_vars

\* html set to f on the source, the renderer bound, html set to g on the bound
\* table and html deleted from the source
C16_Witness ==
    /\ bound # 0
    /\ heap[1].table = <<>>
    /\ heap[1].since["html"] = 1
    /\ heap[1].put["html"] = "f"
    /\ heap[bound].table = <<[key |-> "html", value |-> "g"]>>
    /\ heap[bound].since["html"] = 1

-----------------------------------------------------------------------------
(* Properties of the requests of one action, properties of SpecRequests.   *)

\* C17 as stated: a request that made no change to its renderer table is
\* rendered from the table as it was when its handling began, whatever the
\* handling of another request of the same action did meanwhile.
C17_RequestOwnsItsTable ==
    \A s \in DOMAIN handling :
        (handling[s].stage = "rendered" /\ ~handling[s].touched) =>
            handling[s].seen = handling[s].start

\* C17 as the code has it: every request of an action renders from the one
\* table of the action, the copy Action.__init__ made of the generic table; no
\* table is made for a request.
C17_RequestsShareActionTable ==
    /\ Len(heap) = 2
    /\ bound = 2
    /\ \A s \in DOMAIN handling :
          handling[s].stage # "new" => handling[s].table = bound

\* request 1 changed the table while request 2 was being handled, and request 2,
\* which changed nothing, was rendered from the changed table
C17_Witness ==
    /\ handling[1].touched
    /\ handling[2].stage = "rendered"
    /\ ~handling[2].touched
    /\ handling[2].table = handling[1].table
    /\ handling[2].seen # handling[2].start

-----------------------------------------------------------------------------
(* Properties of the generated routes, properties of SpecRouter.           *)

\* resources() or resource() has been called
Routed == routing.mode # NoMode

\* the action names the call was asked to route: the whitelist, restricted to
\* the actions the mode has
Asked ==
    LET known == IF routing.mode = "plural" THEN RouteActions
                                            ELSE RouteActions \ {"index"} IN
    IF routing.actions.given THEN routing.actions.names \cap known ELSE known

\* the slot an action's route belongs to
SlotOf(mode, action_name) ==
    CASE action_name = "new" -> "new"
      [] action_name = "edit" -> IF mode = "plural" THEN "edit" ELSE "singleton_edit"
      [] action_name \in {"index", "create"} /\ mode = "plural" -> "collection"
      [] OTHER -> IF mode = "plural" THEN "member" ELSE "singleton"

\* the action a route was generated for: the last piece of its name
ActionOf(u) == u.name[Len(u.name)]

\* C18: for each style, resources() and resource() generate a route for every
\* action asked for, and every generated route carries as its 'methods'
\* parameter exactly the fixed table of its slot.
C18_RoutesCarryMethods ==
    Routed =>
        /\ routes.state = "included"
        /\ \A a \in Asked : \E i \in DOMAIN routes.urls : ActionOf(routes.urls[i]) = a
        /\ \A i \in DOMAIN routes.urls :
              /\ routes.urls[i].kwargs.has_methods
              /\ routes.urls[i].kwargs.methods =
                    METHODS[SlotOf(routing.mode, ActionOf(routes.urls[i]))]

\* the whitelist leaves out an action of a slot it asks another action of
PartOfSlot(slot) ==
    /\ \E a \in Asked : SlotOf(routing.mode, a) = slot
    /\ \E m \in DOMAIN METHODS[slot] : METHODS[slot][m] \notin Asked

\* C19: when the whitelist has only part of a slot, the routes of that slot are
\* generated and the method -> action table each carries has no method of an
\* action left out of the whitelist.
C19_WhitelistRestrictsMethods ==
    \A slot \in Slots :
        (Routed /\ routing.actions.given /\ PartOfSlot(slot)) =>
            /\ routes.state = "included"
            /\ \E i \in DOMAIN routes.urls :
                  SlotOf(routing.mode, ActionOf(routes.urls[i])) = slot
            /\ \A i \in DOMAIN routes.urls :
                  SlotOf(routing.mode, ActionOf(routes.urls[i])) = slot =>
                      /\ routes.urls[i].kwargs.has_methods
                      /\ \A m \in DOMAIN routes.urls[i].kwargs.methods :
                            routes.urls[i].kwargs.methods[m] \in Asked

\* C20: resources() with a whitelist of N actions gives exactly N routes, with N
\* different names, each of the form name#action for an action of the whitelist,
\* where name is the name given or else the resource identifier.
C20_OneNamedRoutePerAction ==
    (Routed /\ routing.mode = "plural") =>
        /\ routes.state = "included"
        /\ Len(routes.urls) = Cardinality(Asked)
        /\ \A i, j \in DOMAIN routes.urls :
              i # j => routes.urls[i].name # routes.urls[j].name
        /\ \A i \in DOMAIN routes.urls :
              \E a \in Asked :
                  routes.urls[i].name =
                      <<IF routing.name = NoName THEN routing.resource_name ELSE routing.name,
                        "#", a>>

\* the fixed table of the slot has a method that maps to the action
Reaches(slot, action_name) ==
    \E m \in DOMAIN METHODS[slot] : METHODS[slot][m] = action_name

\* C28: every action that resources() or resource() is asked to route has a
\* route named after it, and the method -> action table of that route's slot
\* has at least one method that maps to the action, 'create' in singular mode
\* included.
C28_NamedActionReachable ==
    Routed =>
        \A a \in Asked :
            /\ \E i \in DOMAIN routes.urls : ActionOf(routes.urls[i]) = a
            /\ Reaches(SlotOf(routing.mode, a), a)

-----------------------------------------------------------------------------
(* Properties of the URL styles, properties of SpecStyle.                  *)

\* the slots whose pattern has the id group
IdSlots == {"member", "edit"}

NewWithMore == {<<"/", "new", sep, w>> : sep \in {"/", "."}, w \in PathWords}

\* paths of the forms /<id>/edit/<extra> and /<id>/edit.<ext>
EditWithMore ==
    {<<"/", i, "/", "edit", sep, w>> : i \in PathWords, sep \in {"/", "."}, w \in PathWords}

NoSlotMatches == \A slot \in Slots : hits.slots[slot] = {}

\* C22 as stated: under the Rails style a path /new/<extra>, /new.<ext>,
\* /<id>/edit/<extra> or /<id>/edit.<ext> matches no pattern of the style,
\* while /new and /new/ match the new pattern with nothing captured.
C22_RailsRejectsNewWithMore ==
    (hits.done /\ style = "rails") =>
        /\ path \in NewWithMore \cup EditWithMore => NoSlotMatches
        /\ path \in {<<"/", "new">>, <<"/", "new", "/">>} => hits.slots["new"] = {<<>>}

\* C22 as the code has it: the new pattern matches /new and /new/ only, with
\* nothing captured, and the edit pattern /<id>/edit and /<id>/edit/ only;
\* /<id>/edit/<extra> and /<id>/edit.<ext> match no pattern; /new/<extra> and
\* /new.<ext> match no pattern when the id fragment does not match 'new', and
\* otherwise /new.<ext> matches the member pattern and /new/edit the edit one.
C22_RailsNewEditStrict ==
    (hits.done /\ style = "rails") =>
        /\ hits.slots["new"] =
              IF path \in {<<"/", "new">>, <<"/", "new", "/">>} THEN {<<>>} ELSE {}
        /\ hits.slots["edit"] # {} <=>
              \E i \in ClassWords(id_arg.regex) :
                  path \in {<<"/", i, "/", "edit">>, <<"/", i, "/", "edit", "/">>}
        /\ path \in EditWithMore => NoSlotMatches
        /\ (path \in NewWithMore /\ "new" \notin ClassWords(id_arg.regex)) => NoSlotMatches
        /\ (path \in NewWithMore /\ "new" \in ClassWords(id_arg.regex)) =>
              /\ hits.slots["member"] # {} <=> path[3] = "."
              /\ hits.slots["edit"] # {} <=> path = <<"/", "new", "/", "edit">>
              /\ \A slot \in Slots \ {"member", "edit"} : hits.slots[slot] = {}

\* a slug id: /new.foobar matched the member pattern as id 'new', format '.foobar'
C22_Witness ==
    /\ hits.done
    /\ style = "rails"
    /\ id_arg = IdPair("slug", "\\w+")
    /\ path = <<"/", "new", ".", "foobar">>
    /\ hits.slots["new"] = {}
    /\ hits.slots["member"] =
          {<<Capture("slug", <<"new">>), Capture("format", <<".", "foobar">>)>>}

-----------------------------------------------------------------------------
(* Properties of calling an action, checked under SpecAction.              *)

\* C24: when a BoundAction is called the action method runs exactly once; a
\* response it returns is the result of the call and the renderer is not
\* run; when it returns nothing the renderer is run exactly once and what the
\* renderer gives back is the result.
C24_MethodOnceThenRenderOnce ==
    /\ body.runs <= 1 /\ invocation.renders <= 1
    /\ (invocation.stage # "bound" /\ wrapping # "blocks") => body.runs = 1
    /\ invocation.stage = "returned" => invocation.renders = 0
    /\ (invocation.stage = "done" /\ invocation.method.what = "response") =>
          (invocation.result = invocation.method /\ invocation.renders = 0)
    /\ (invocation.stage = "done" /\ invocation.method.what = "none") =>
          /\ invocation.renders = 1
          /\ invocation.result.by = "render"
          /\ invocation.result.response \in RenderResults

C24_Witness ==
    /\ wrapping = "plain" /\ invocation.stage = "done"
    /\ body.runs = 1 /\ invocation.method.what = "none"
    /\ invocation.renders = 1 /\ invocation.result.response = BackendResponse("html")

\* C25: with Action.deco, a decorator that returns a response without calling
\* the view keeps the action body from running and the renderer from being
\* run, and its response is the result; a decorator that calls the view makes
\* the request, arguments and parameters it passes those of the resource
\* before the action body runs.
C25_DecoratorRulesTheCall ==
    /\ (wrapping = "blocks" /\ invocation.stage = "done") =>
          /\ body.runs = 0 /\ invocation.renders = 0
          /\ invocation.result = Value("decorator", "response")
    /\ (wrapping = "modifies" /\ invocation.stage # "bound") =>
          /\ body.runs = 1 /\ body.saw = attrs
          /\ body.saw.request = "ModifiedRequest"
          /\ body.saw.args = <<"another_user">>
          /\ "authenticated" \in body.saw.params
    /\ (wrapping = "passes" /\ invocation.stage # "bound") =>
          /\ body.runs = 1 /\ body.saw = attrs
          /\ body.saw.request = "Request"
          /\ "authenticated" \notin body.saw.params

C25_Witness ==
    /\ wrapping = "modifies" /\ invocation.stage = "done"
    /\ body.runs = 1 /\ body.saw.request = "ModifiedRequest"
    /\ invocation.result.by = "render"

-----------------------------------------------------------------------------
(* The method override of the dispatch, checked under SpecResource.        *)

\* C26: the dispatch routes on the upper-cased '_method' field of the request
\* body when the field is there and on the upper-cased HTTP method otherwise;
\* a POST carrying _method=delete is routed as a DELETE is.
C26_MethodOverride ==
    decision # NoDecision =>
        /\ request.post_method # NoOverride =>
              decision = Route(Upper(request.post_method), kwargs.methods, implemented)
        /\ request.post_method = NoOverride =>
              decision = Route(Upper(request.method), kwargs.methods, implemented)
        /\ (request.method = "POST" /\ request.post_method \in {"delete", "Delete"}) =>
              decision = Route("DELETE", kwargs.methods, implemented)

C26_Witness ==
    /\ request = [method |-> "POST", post_method |-> "delete"]
    /\ kwargs.has_methods
    /\ kwargs.methods = [m \in {"GET", "POST", "DELETE"} |->
                            CASE m = "GET" -> "show" [] m = "POST" -> "update"
                              [] OTHER -> "destroy"]
    /\ implemented = Actions
    /\ executed = <<"destroy">>

-----------------------------------------------------------------------------
(* Further properties of a render, checked under SpecRender.               *)

\* the candidates of a request that names no format: the Accept matches, or
\* 'html' when there are none and the table has it
CandidatesWithoutFormat ==
    LET found == IF AcceptGiven(accept) THEN MatchAccept(accept.items, Keys(backends))
                                        ELSE <<>> IN
    IF found = <<>> /\ Contains(backends, "html") THEN <<"html">> ELSE found

\* the explicit format of the request is not a key of the renderer table
FormatUnknown == Truthy(Format(fmt)) /\ ~Contains(backends, Format(fmt))

\* C27: an explicit format that is not a key of the renderer table is
\* ignored: the candidates, and so the backends invoked, their order and the
\* outcome, are those of the same request without a format.
C27_UnknownFormatIgnored ==
    (FormatUnknown /\ pc # "idle") =>
        /\ matches = CandidatesWithoutFormat
        /\ \A i \in DOMAIN log : log[i].shortcode = CandidatesWithoutFormat[i]
        /\ (pc = "done" /\ log = <<>>) =>
              (CandidatesWithoutFormat = <<>> /\ response = NotAcceptable)

C27_Witness ==
    /\ Format(fmt) = "png" /\ pc = "done"
    /\ AcceptGiven(accept)
    /\ Len(matches) >= 2 /\ Len(log) = 2
    /\ log[1].outcome = "skip" /\ log[2].outcome = "ok"

\* C29: the first response a backend returns is the result of the render and
\* no later candidate is invoked; a failure of a backend other than Skip ends
\* the render with that failure, no later candidate being invoked.
C29_FirstResponseOrFailureEnds ==
    \A i \in DOMAIN log :
        /\ log[i].outcome = "ok" =>
              (i = Len(log) /\ pc = "done" /\ response = BackendResponse(log[i].shortcode))
        /\ log[i].outcome = "raise" =>
              (i = Len(log) /\ pc = "done" /\ response = BackendFailure(log[i].shortcode))

C29_Witness ==
    /\ pc = "done" /\ Len(matches) >= 2 /\ Len(log) = 1
    /\ log[1].outcome = "ok" /\ response = BackendResponse(matches[1])

\* C30: every candidate that _match builds is a key of the renderer table, so
\* the backend the loop looks up for a candidate is always there.
C30_CandidatesAreKeys ==
    /\ \A i \in DOMAIN matches : Contains(backends, matches[i])
    /\ \A i \in DOMAIN log : Contains(backends, log[i].shortcode)

C30_Witness ==
    /\ pc = "done" /\ Truthy(Format(fmt)) /\ AcceptGiven(accept)
    /\ Len(matches) >= 2 /\ matches[1] = Format(fmt)
    /\ Len(log) = Len(matches)

====
